---- MODULE Spec2Model ----
(***************************************************************************)
(* AgentOne: the POST /chat inference relay of the server (server.ts), the *)
(* transcript recorder saveChatMessage, and the sessions / chats /         *)
(* chats_fts tables they write (sqlite.ts, routes/chat-session.ts).        *)
(*                                                                         *)
(* Text is a sequence of one-character strings.  An upstream NDJSON line   *)
(* {"message":{"content":"ab"}} is written <<"{","a","b","}">>: "{" is the *)
(* opening part of the object up to the content, "}" its closing part.     *)
(* Any other line (e.g. <<"x">>, or a piece of a line) is not JSON.        *)
(*                                                                         *)
(* Spec is the server driven by one browser client, which keeps a single   *)
(* send in flight (SendNext); Issue(r, b) itself carries no such guard.    *)
(* FollowUpSpec is the same server and client with the stream option       *)
(* switched off after the first send (SendFirst, SendUnstreamed): every    *)
(* behaviour of FollowUpSpec is a behaviour of Spec.                       *)
(* SessionSpec and DeleteSpec are the server driven by a client that chats *)
(* without streaming (SendPlain), with an upstream and a database that     *)
(* work, and that edits (PUT /session/:uid) respectively deletes (DELETE   *)
(* /session/:uid, POST /session/:uid/chat/delete) sessions and chats.      *)
(* ConcSpec is the server answering two requests on one session that       *)
(* arrive before either is answered (SendTogether).                        *)
(* PatchSpec is the server driven by a client whose settings edit the      *)
(* name and the archive flag of its sessions.  ClientSpec is the server    *)
(* driven by the Gpt component of the browser client (pages/gpt.tsx),      *)
(* whose send effect, cancel button and stream switch issue and abort the  *)
(* requests.                                                               *)
(***************************************************************************)
EXTENDS Integers, Sequences, FiniteSets, TLC

\* ---- bounds of the model ------------------------------------------------
MaxLines == 2       \* lines the upstream sends in one streamed response
MaxSessions == 1    \* sessions created through POST /session
MaxClock == 1       \* latest time of the wall clock

\* the POST /chat requests of one run, in the order the client sends them
ReqOrder == <<"r1", "r2">>
Reqs == { ReqOrder[i] : i \in 1..Len(ReqOrder) }

\* ---- text ---------------------------------------------------------------
NL == "\n"
Whitespace == {" "}

\* the text the model answers with, one character per streamed fragment
ReplyText == <<"a", "b", "c", "d">>
ContentChars == { ReplyText[i] : i \in 1..Len(ReplyText) }

\* the i-th line the upstream sends: the fragment carrying the i-th
\* character of the reply, or a line that is not JSON
LinesAt(i) == { <<"{", ReplyText[i], "}">>, <<"x">> }

RECURSIVE Concat(_)
Concat(ss) == IF ss = <<>> THEN <<>> ELSE Head(ss) \o Concat(Tail(ss))

StreamsOfLines(n) ==
  { Concat([i \in 1..n |-> ls[i] \o <<NL>>]) :
      ls \in { f \in [1..n -> UNION { LinesAt(i) : i \in 1..n }] :
                 \A i \in 1..n : f[i] \in LinesAt(i) } }

\* every complete upstream body: up to MaxLines lines, each ended by "\n"
UpstreamStreams == UNION { StreamsOfLines(n) : n \in 0..MaxLines }

IsPrefix(p, s) == Len(p) <= Len(s) /\ SubSeq(s, 1, Len(p)) = p

\* the chunks reader.read() may yield next when `got` has been read so far:
\* any non-empty run of the bytes that follow, cut anywhere
NextChunks(got) ==
  UNION { { SubSeq(s, Len(got) + 1, k) : k \in (Len(got) + 1)..Len(s) } :
            s \in { t \in UpstreamStreams : IsPrefix(got, t) } }

\* chunk.split("\n")
RECURSIVE Split(_)
Split(s) ==
  IF \A i \in 1..Len(s) : s[i] # NL
    THEN <<s>>
    ELSE LET i == CHOOSE j \in 1..Len(s) :
                    s[j] = NL /\ \A k \in 1..(j - 1) : s[k] # NL
         IN  <<SubSeq(s, 1, i - 1)>> \o Split(SubSeq(s, i + 1, Len(s)))

\* line.trim() !== ""
NonBlank(line) == \E i \in 1..Len(line) : line[i] \notin Whitespace

\* JSON.parse(line) followed by the read of the fragment's content
\* (message.content, or choices[0].delta.content: both are read the same
\* way); ok = FALSE stands for the SyntaxError JSON.parse throws
JsonParse(line) ==
  IF /\ Len(line) >= 2
     /\ line[1] = "{"
     /\ line[Len(line)] = "}"
     /\ \A i \in 2..(Len(line) - 1) : line[i] \in ContentChars
    THEN [ok |-> TRUE, content |-> SubSeq(line, 2, Len(line) - 1)]
    ELSE [ok |-> FALSE, content |-> <<>>]

\* chunk.split("\n").filter(...).map(JSON.parse)
chunkData(chunk) ==
  LET lines == SelectSeq(Split(chunk), NonBlank)
  IN  [i \in 1..Len(lines) |-> JsonParse(lines[i])]

ChunkParses(chunk) ==
  \A i \in 1..Len(chunkData(chunk)) : chunkData(chunk)[i].ok

\* a loop that keeps only last(chunkData), as _streamResult does
ChunkContentOfLast(chunk) ==
  IF chunkData(chunk) = <<>> THEN <<>>
  ELSE chunkData(chunk)[Len(chunkData(chunk))].content

\* what the for-loop over chunkData appends to fullContent
ChunkContent(chunk) ==
  Concat([i \in 1..Len(chunkData(chunk)) |-> chunkData(chunk)[i].content])

\* ---- state --------------------------------------------------------------
VARIABLES
  pc,               \* where each POST /chat handler is
  body,             \* req.body of each request
  upstream,         \* how the fetch of each request turned out
  received,         \* bytes the upstream reader has yielded so far
  fullContent,      \* let fullContent of each streamResponse closure
  res,              \* the express response of each request
  aborted,          \* the client closed its connection before completion
  calls,            \* what each handler has called so far, in order
  client,           \* state of the Gpt component of the browser client
  sres,             \* route, status and error text of the latest /session
                    \* response
  chatRows,         \* chatInsertResult.lastInsertRowid of each request's save
  sessions,         \* table sessions
  chats,            \* table chats
  chats_fts,        \* virtual table chats_fts
  seqSession,       \* AUTOINCREMENT counter of sessions
  seqChat,          \* AUTOINCREMENT counter of chats
  minted,           \* number of uids slugid.nice() has produced
  clock             \* the latest time new Date() has returned, in ticks

reqVars == <<pc, body, upstream, received, fullContent, res, aborted, calls,
            client>>
dbVars == <<chatRows, sessions, chats, chats_fts, seqSession, seqChat, minted>>
vars == <<pc, body, upstream, received, fullContent, res, aborted, calls, sres,
          client, chatRows, sessions, chats, chats_fts, seqSession, seqChat, minted,
          clock>>

\* ---- values -------------------------------------------------------------
NULL == "NULL"                  \* SQL NULL / JS null in a text column
NullId == 0                     \* SQL NULL in an integer column
Unset == "<unset>"              \* a response header that was never set
GhostUid == "ghost"             \* a sessionUid no session row carries
CallerChatUid == "c1"           \* a chatUid chosen by the caller

\* slugid.nice(): the n-th identifier it hands out; all are distinct
SlugId(n) == "m" \o ToString(n)

NoBody == [query |-> "", model |-> "", temperature |-> NULL, stream |-> FALSE,
           sessionUid |-> "", chatUid |-> "", system |-> NULL]

\* the bodies a client may POST to /chat
Bodies(sessionUids) ==
  [query : {"Hello"}, model : {"llama3.2"}, temperature : {"0.7"},
   stream : BOOLEAN, sessionUid : sessionUids, chatUid : {"", CallerChatUid},
   system : {NULL}]

\* an upstream JSON body: Ollama's {message:{content,role}}, the
\* OpenAI-style {choices:[{message:{content,role}}]}, or neither
NoResult == [hasChoices |-> FALSE, hasMessage |-> FALSE,
             content |-> <<>>, role |-> ""]
UpstreamResults ==
  { [hasChoices |-> FALSE, hasMessage |-> TRUE, content |-> <<"a">>,
     role |-> "assistant"],
    [hasChoices |-> TRUE, hasMessage |-> FALSE, content |-> <<"b">>,
     role |-> "bot"],
    NoResult }

NoRes == [status |-> 0, xSessionUid |-> Unset, xChatUid |-> Unset,
          written |-> <<>>, json |-> "none", result |-> NoResult,
          sessionUid |-> Unset, chatUid |-> Unset, ended |-> FALSE]

\* no /session request has been answered yet
NoSres == [route |-> "none", status |-> 0, error |-> ""]

\* useState / useRef of the Gpt component when it has mounted; call[r] is
\* where the apiSendQuery call that sent request r stands
NoClient ==
  [query |-> "", sending |-> FALSE, stream |-> TRUE, controllerRef |-> "none",
   sessionChats |-> <<>>, call |-> [r \in Reqs |-> "none"]]

Init ==
  /\ pc = [r \in Reqs |-> "idle"]
  /\ body = [r \in Reqs |-> NoBody]
  /\ upstream = [r \in Reqs |-> "pending"]
  /\ received = [r \in Reqs |-> <<>>]
  /\ fullContent = [r \in Reqs |-> <<>>]
  /\ res = [r \in Reqs |-> NoRes]
  /\ aborted = [r \in Reqs |-> FALSE]
  /\ calls = [r \in Reqs |-> <<>>]
  /\ sres = NoSres
  /\ client = NoClient
  /\ chatRows = [r \in Reqs |-> {}]
  /\ sessions = {}
  /\ chats = {}
  /\ chats_fts = {}
  /\ seqSession = 0
  /\ seqChat = 0
  /\ minted = 0
  /\ clock = 0

\* a wall clock that may be set back between two reads
AnyTime == 0..MaxClock

\* new Date(): any time not before the latest one observed
Now == clock..MaxClock

\* ---- transcript recorder -------------------------------------------------
\* the statement of saveChatMessage that throws, if any; the catch block
\* swallows the error and keeps what the earlier statements wrote
DbFailures == {"none", "select", "session", "chat", "fts"}

\* reply / role that saveChatMessage reads out of `response`
ReplyOf(response) ==
  IF response.hasChoices \/ response.hasMessage THEN response.content ELSE <<>>

RoleOf(response) ==
  IF response.hasChoices \/ response.hasMessage
    THEN response.role ELSE "assistant"

\* SELECT * FROM sessions WHERE uid = ? : the first matching row
SessionByUid(uid) ==
  LET found == { s \in sessions : s.uid = uid }
  IN  CHOOSE s \in found : \A t \in found : s.id <= t.id

\* rowid SQLite gives a row inserted without one: max(rowid) + 1
NextRowid(table) ==
  IF table = {} THEN 1
  ELSE (CHOOSE x \in table : \A y \in table : y.rowid <= x.rowid).rowid + 1

\* a recorder that updates the row already stored under the uid
upsertChat(table, row) ==
  IF \E c \in table : c.uid = row.uid
    THEN { IF c.uid = row.uid THEN [c EXCEPT !.reply = row.reply] ELSE c :
           c \in table }
    ELSE table \cup {row}

\* INSERT INTO chats (...) VALUES (...): a plain append
insertChat(table, row) == table \cup {row}

\* an update that also renames the session after the chat
TouchAndRetitle(s, createdAt) ==
  [s EXCEPT !.updatedAt = createdAt,
            !.name = "Chat on " \o ToString(createdAt)]

\* UPDATE sessions SET updatedAt = ? WHERE uid = ? : the row afterwards
Touch(s, createdAt) == [s EXCEPT !.updatedAt = createdAt]

\* the rowid of the connection's latest insert as it was before the INSERT
\* INTO chats ran: that of the chat recorded before this one
staleInsertRowid(row) == row.id - 1

\* chatInsertResult.lastInsertRowid: the id the INSERT INTO chats produced
lastInsertRowid(row) == row.id

saveChatMessage(r, response, dbFail, createdAt) ==
  LET request == body[r]
      sessionUid == request.sessionUid
      \* `session` is truthy: {} when no sessionUid came, else the row found
      hasSession == sessionUid = "" \/ \E s \in sessions : s.uid = sessionUid
      newSession ==
        [id |-> seqSession + 1, uid |-> SlugId(minted + 1),
         name |-> "Chat on " \o ToString(createdAt), model |-> request.model,
         temperature |-> "0.7", createdAt |-> createdAt,
         updatedAt |-> createdAt, modelFileId |-> NULL, templateId |-> NULL,
         isArchive |-> 0, jsonMeta |-> NULL]
      sessionsDone ==
        IF hasSession
          THEN { IF s.uid = sessionUid THEN Touch(s, createdAt) ELSE s :
                 s \in sessions }
          ELSE sessions \cup {newSession}
      \* get(session, "id", null)
      sessionId ==
        IF ~hasSession THEN newSession.id
        ELSE IF sessionUid = "" THEN NullId
        ELSE SessionByUid(sessionUid).id
      mintedSession == IF hasSession THEN minted ELSE minted + 1
      mintsChat == request.chatUid = ""
      newChat ==
        [id |-> seqChat + 1,
         uid |-> IF mintsChat THEN SlugId(mintedSession + 1)
                 ELSE request.chatUid,
         sessionId |-> sessionId, query |-> request.query,
         reply |-> ReplyOf(response), role |-> RoleOf(response),
         createdAt |-> createdAt,
         jsonMeta |-> [temperature |-> request.temperature,
                       stream |-> request.stream, system |-> request.system]]
      newFts == [rowid |-> NextRowid(chats_fts), id |-> lastInsertRowid(newChat),
                 query |-> request.query, reply |-> ReplyOf(response)]
      sessionOk == dbFail \notin {"select", "session"}
      chatOk == sessionOk /\ dbFail # "chat"
      ftsOk == chatOk /\ dbFail # "fts"
  IN  /\ dbFail = "select" => sessionUid # ""
      /\ clock' = createdAt
      /\ sessions' = IF sessionOk THEN sessionsDone ELSE sessions
      /\ seqSession' = IF sessionOk /\ ~hasSession
                         THEN seqSession + 1 ELSE seqSession
      /\ chats' = IF chatOk THEN insertChat(chats, newChat) ELSE chats
      /\ seqChat' = IF chatOk THEN seqChat + 1 ELSE seqChat
      /\ chatRows' = IF chatOk
                       THEN [chatRows EXCEPT ![r] = @ \cup {newChat.id}]
                       ELSE chatRows
      /\ chats_fts' = IF ftsOk THEN chats_fts \cup {newFts} ELSE chats_fts
      /\ minted' = IF dbFail = "select" THEN minted
                   ELSE IF ~sessionOk THEN mintedSession
                   ELSE IF mintsChat THEN mintedSession + 1
                   ELSE mintedSession

\* ---- POST /chat ---------------------------------------------------------
InFlight == {"fetch", "json", "reading"}

\* a client sends POST /chat with body b; the handler runs up to
\* `await fetch(...)`
Issue(r, b) ==
  /\ pc[r] = "idle"
  /\ body' = [body EXCEPT ![r] = b]
  /\ pc' = [pc EXCEPT ![r] = "fetch"]
  /\ UNCHANGED <<upstream, received, fullContent, res, aborted, calls, sres,
                 client, dbVars, clock>>

\* the browser client keeps one send at a time: it sends the next request
\* once the connections of the earlier ones are closed
SendNext(r) ==
  /\ \E i \in 1..Len(ReqOrder) :
       /\ ReqOrder[i] = r
       /\ \A j \in 1..(i - 1) : pc[ReqOrder[j]] = "closed"
  /\ \E b \in Bodies({"", GhostUid} \cup { s.uid : s \in sessions }) :
       Issue(r, b)

\* a catch block that answers 500 without the correlation headers, as the
\* one of GET /list-models does
CatchErrorBare(r) ==
  [res[r] EXCEPT !.status = 500, !.json = "error", !.ended = TRUE]

\* catch (error): res.set({...}); res.status(500).json({error})
CatchError(r) ==
  [res[r] EXCEPT !.xSessionUid = body[r].sessionUid,
                 !.xChatUid = body[r].chatUid,
                 !.status = 500, !.json = "error", !.ended = TRUE]

\* fetch rejects (upstream unreachable) or answers non-2xx: throw -> catch
FetchFailed(r) ==
  /\ pc[r] = "fetch"
  /\ \E how \in {"unreachable", "non2xx"} :
       upstream' = [upstream EXCEPT ![r] = how]
  /\ res' = [res EXCEPT ![r] = CatchError(r)]
  /\ calls' = [calls EXCEPT ![r] = @ \o <<"set", "json">>]
  /\ pc' = [pc EXCEPT ![r] = "done"]
  /\ UNCHANGED <<body, received, fullContent, aborted, sres, client, dbVars,
                 clock>>

\* a stream branch that starts streamResponse() without res.writeHead
FetchedStreamHeadless(r) ==
  /\ pc[r] = "fetch"
  /\ body[r].stream
  /\ upstream' = [upstream EXCEPT ![r] = "ok"]
  /\ \E hasReader \in BOOLEAN :
       pc' = [pc EXCEPT ![r] = IF hasReader THEN "reading" ELSE "returned"]
  /\ UNCHANGED <<body, received, fullContent, res, aborted, calls, sres,
                 client, dbVars, clock>>

\* fetch resolves ok, stream requested: res.writeHead(200, ...) and
\* streamResponse() is started; without a reader the handler just returns
FetchedStream(r) ==
  /\ pc[r] = "fetch"
  /\ body[r].stream
  /\ upstream' = [upstream EXCEPT ![r] = "ok"]
  /\ \E hasReader \in BOOLEAN :
       IF hasReader
         THEN /\ res' = [res EXCEPT ![r].status = 200,
                                    ![r].xSessionUid = body[r].sessionUid,
                                    ![r].xChatUid = body[r].chatUid]
              /\ calls' = [calls EXCEPT ![r] = @ \o <<"writeHead">>]
              /\ pc' = [pc EXCEPT ![r] = "reading"]
         ELSE /\ res' = res
              /\ calls' = calls
              /\ pc' = [pc EXCEPT ![r] = "returned"]
  /\ UNCHANGED <<body, received, fullContent, aborted, sres, client, dbVars,
                 clock>>

\* fetch resolves ok, no stream: the handler awaits response.json()
FetchedJson(r) ==
  /\ pc[r] = "fetch"
  /\ ~body[r].stream
  /\ upstream' = [upstream EXCEPT ![r] = "ok"]
  /\ pc' = [pc EXCEPT ![r] = "json"]
  /\ UNCHANGED <<body, received, fullContent, res, aborted, calls, sres,
                 client, dbVars, clock>>

\* a handler that awaits a recorder which rethrows: a statement that fails
\* lands in the catch block of the handler
JsonRepliedOrThrown(r) ==
  /\ pc[r] = "json"
  /\ \E result \in UpstreamResults, dbFail \in DbFailures, now \in Now :
       /\ saveChatMessage(r, result, dbFail, now)
       /\ res' = IF dbFail = "none"
                   THEN [res EXCEPT ![r].status = 200, ![r].json = "result",
                                    ![r].result = result,
                                    ![r].sessionUid = body[r].sessionUid,
                                    ![r].chatUid = body[r].chatUid,
                                    ![r].ended = TRUE]
                   ELSE [res EXCEPT ![r] = CatchError(r)]
  /\ calls' = [calls EXCEPT ![r] = @ \o <<"saveChatMessage", "json">>]
  /\ pc' = [pc EXCEPT ![r] = "done"]
  /\ UNCHANGED <<body, upstream, received, fullContent, aborted, sres,
                 client>>

\* response.json() resolves: saveChatMessage(...); res.json({...result,
\* sessionUid, chatUid})
JsonReplied(r) ==
  /\ pc[r] = "json"
  /\ \E result \in UpstreamResults, dbFail \in DbFailures, now \in Now :
       /\ saveChatMessage(r, result, dbFail, now)
       /\ res' = [res EXCEPT ![r].status = 200, ![r].json = "result",
                             ![r].result = result,
                             ![r].sessionUid = body[r].sessionUid,
                             ![r].chatUid = body[r].chatUid,
                             ![r].ended = TRUE]
  /\ calls' = [calls EXCEPT ![r] = @ \o <<"saveChatMessage", "json">>]
  /\ pc' = [pc EXCEPT ![r] = "done"]
  /\ UNCHANGED <<body, upstream, received, fullContent, aborted, sres,
                 client>>

\* response.json() rejects (body is not JSON, upstream dropped): catch
JsonFailed(r) ==
  /\ pc[r] = "json"
  /\ upstream' = [upstream EXCEPT ![r] = "badjson"]
  /\ res' = [res EXCEPT ![r] = CatchError(r)]
  /\ calls' = [calls EXCEPT ![r] = @ \o <<"set", "json">>]
  /\ pc' = [pc EXCEPT ![r] = "done"]
  /\ UNCHANGED <<body, received, fullContent, aborted, sres, client, dbVars,
                 clock>>

\* streamResponse() was called without await and without .catch: a throw
\* inside it is an unhandled rejection.  The handler does nothing more for
\* the request.  What the runtime does then is its own choice (`fatal`):
\* it logs and goes on, or it exits and takes every request in flight down.
Rejected(r, fatal) ==
  [q \in Reqs |->
     IF q = r THEN IF fatal THEN "killed" ELSE "rejected"
     ELSE IF fatal /\ pc[q] \in InFlight \cup {"returned", "rejected"}
       THEN "killed"
     ELSE pc[q]]

\* the calls made so far and one more; a call repeated in a row (res.write
\* of chunk after chunk) is on record once
Called(log, call) ==
  IF log # <<>> /\ log[Len(log)] = call THEN log ELSE Append(log, call)

\* a loop that accumulates into one fullContent declared outside the
\* handler, which all requests share
ReadChunkShared(r) ==
  /\ pc[r] = "reading"
  /\ \E chunk \in NextChunks(received[r]), fatal \in BOOLEAN :
       /\ received' = [received EXCEPT ![r] = @ \o chunk]
       /\ IF ChunkParses(chunk)
            THEN /\ ~fatal
                 /\ fullContent' =
                      [q \in Reqs |-> fullContent[q] \o ChunkContent(chunk)]
                 /\ res' = [res EXCEPT ![r].written = @ \o chunk]
                 /\ calls' = [calls EXCEPT ![r] = Called(@, "write")]
                 /\ pc' = pc
            ELSE /\ fullContent' = fullContent
                 /\ res' = res
                 /\ calls' = calls
                 /\ pc' = Rejected(r, fatal)
  /\ UNCHANGED <<body, upstream, aborted, sres, client, dbVars, clock>>

\* one turn of the while loop with done = false
ReadChunk(r) ==
  /\ pc[r] = "reading"
  /\ \E chunk \in NextChunks(received[r]), fatal \in BOOLEAN :
       /\ received' = [received EXCEPT ![r] = @ \o chunk]
       /\ IF ChunkParses(chunk)
            THEN /\ ~fatal
                 /\ fullContent' =
                      [fullContent EXCEPT ![r] = @ \o ChunkContent(chunk)]
                 /\ res' = [res EXCEPT ![r].written = @ \o chunk]
                 /\ calls' = [calls EXCEPT ![r] = Called(@, "write")]
                 /\ pc' = pc
            ELSE /\ fullContent' = fullContent
                 /\ res' = res
                 /\ calls' = calls
                 /\ pc' = Rejected(r, fatal)
  /\ UNCHANGED <<body, upstream, aborted, sres, client, dbVars, clock>>

\* a done branch that ends the response and records afterwards
ReadDoneEndFirst(r) ==
  /\ pc[r] = "reading"
  /\ received[r] \in UpstreamStreams
  /\ \E dbFail \in DbFailures, now \in Now :
       saveChatMessage(r, [hasChoices |-> TRUE, hasMessage |-> FALSE,
                           content |-> fullContent[r], role |-> "assistant"],
                       dbFail, now)
  /\ res' = [res EXCEPT ![r].ended = TRUE]
  /\ calls' = [calls EXCEPT ![r] = @ \o <<"end", "saveChatMessage">>]
  /\ pc' = [pc EXCEPT ![r] = "done"]
  /\ UNCHANGED <<body, upstream, received, fullContent, aborted, sres,
                 client>>

\* reader.read() yields done: saveChatMessage(...); break; res.end()
ReadDone(r) ==
  /\ pc[r] = "reading"
  /\ received[r] \in UpstreamStreams
  /\ \E dbFail \in DbFailures, now \in Now :
       saveChatMessage(r, [hasChoices |-> TRUE, hasMessage |-> FALSE,
                           content |-> fullContent[r], role |-> "assistant"],
                       dbFail, now)
  /\ res' = [res EXCEPT ![r].ended = TRUE]
  /\ calls' = [calls EXCEPT ![r] = @ \o <<"saveChatMessage", "end">>]
  /\ pc' = [pc EXCEPT ![r] = "done"]
  /\ UNCHANGED <<body, upstream, received, fullContent, aborted, sres,
                 client>>

\* reader.read() rejects: the upstream connection broke mid-stream
ReadFailed(r) ==
  /\ pc[r] = "reading"
  /\ upstream' = [upstream EXCEPT ![r] = "broken"]
  /\ \E fatal \in BOOLEAN : pc' = Rejected(r, fatal)
  /\ UNCHANGED <<body, received, fullContent, res, aborted, calls, sres,
                 client, dbVars, clock>>

\* the client aborts its request (AbortController) before it is answered;
\* the handler registers no listener for it and carries on
ClientAbort(r) ==
  /\ pc[r] \in InFlight
  /\ ~aborted[r]
  /\ aborted' = [aborted EXCEPT ![r] = TRUE]
  /\ UNCHANGED <<pc, body, upstream, received, fullContent, res, calls, sres,
                 client, dbVars, clock>>

\* the connection of a request that is over is torn down and the closure
\* of its handler is garbage; what was sent and which row was written stay
\* on record
Close(r) ==
  /\ pc[r] \in {"done", "rejected", "killed", "returned"}
  /\ pc' = [pc EXCEPT ![r] = "closed"]
  /\ upstream' = [upstream EXCEPT ![r] = "pending"]
  /\ received' = [received EXCEPT ![r] = <<>>]
  /\ fullContent' = [fullContent EXCEPT ![r] = <<>>]
  /\ res' = [res EXCEPT ![r] = NoRes]
  /\ aborted' = [aborted EXCEPT ![r] = FALSE]
  /\ calls' = [calls EXCEPT ![r] = <<>>]
  /\ UNCHANGED <<body, sres, client, dbVars, clock>>

\* ---- POST /session -------------------------------------------------------
\* a failing INSERT answers 500 and leaves every table as it was
CreateSession ==
  /\ seqSession < MaxSessions
  /\ \E name \in {"n1"}, createdAt \in Now :
       LET row == [id |-> seqSession + 1, uid |-> SlugId(minted + 1),
                   name |-> name, model |-> "llama3.2", temperature |-> NULL,
                   createdAt |-> createdAt, updatedAt |-> createdAt,
                   modelFileId |-> NULL, templateId |-> NULL,
                   isArchive |-> 0, jsonMeta |-> NULL]
       IN  /\ clock' = createdAt
           /\ minted' = minted + 1
           /\ sessions' = sessions \cup {row}
           /\ seqSession' = seqSession + 1
           /\ sres' = [route |-> "POST /", status |-> 201, error |-> ""]
  /\ UNCHANGED <<reqVars, chatRows, chats, chats_fts, seqChat>>

\* ---- PUT /session/:sessionUid ---------------------------------------------
\* a request body is a record of the fields it supplies
Supplies(patch, field) == field \in DOMAIN patch

\* `if (name)`: the field is supplied and its text is not empty
Truthy(patch, field) == Supplies(patch, field) /\ patch[field] # ""

\* the bodies a client may PUT: nothing, a new name, an empty name
Patches == { [f \in {} |-> ""], [name |-> "n2"], [name |-> ""] }

\* a write of the whole row: a column the body does not supply is reset
Replaced(patch, field, old) ==
  IF Supplies(patch, field) THEN patch[field]
  ELSE IF field = "isArchive" THEN 0 ELSE NULL

\* the column of the UPDATE statement after the push of `field = ?`
Patched(patch, field, old) ==
  IF field \in {"temperature", "isArchive"}
    THEN IF Supplies(patch, field) THEN patch[field] ELSE old
    ELSE IF Truthy(patch, field) THEN patch[field] ELSE old

\* updateFields.length === 0
NoFields(patch) ==
  /\ \A f \in {"name", "model", "modelFileId", "templateId", "jsonMeta"} :
       ~Truthy(patch, f)
  /\ \A f \in {"temperature", "isArchive"} : ~Supplies(patch, f)

\* a write that stores the row as a new one (INSERT OR REPLACE)
Reinserted(session, row) ==
  { s \in sessions : s.id # session.id }
    \cup {[row EXCEPT !.id = seqSession + 1]}

\* UPDATE sessions SET ... WHERE id = ? : the table afterwards
Updated(session, row) ==
  { IF s.id = session.id THEN row ELSE s : s \in sessions }

UpdateSession(sessionUid, patch) ==
  /\ IF \A s \in sessions : s.uid # sessionUid
       THEN /\ sres' = [route |-> "PUT /:sessionUid", status |-> 404,
                       error |-> "Session not found"]
            /\ UNCHANGED <<sessions, clock>>
       ELSE IF NoFields(patch)
         THEN /\ sres' = [route |-> "PUT /:sessionUid", status |-> 400,
                         error |-> "No fields to update provided"]
              /\ UNCHANGED <<sessions, clock>>
         ELSE \E now \in Now :
                LET session == SessionByUid(sessionUid)
                    row == [session EXCEPT
                              !.name = Patched(patch, "name", @),
                              !.model = Patched(patch, "model", @),
                              !.temperature = Patched(patch, "temperature", @),
                              !.modelFileId = Patched(patch, "modelFileId", @),
                              !.templateId = Patched(patch, "templateId", @),
                              !.isArchive = Patched(patch, "isArchive", @),
                              !.jsonMeta = Patched(patch, "jsonMeta", @),
                              !.updatedAt = now]
                IN  /\ sessions' = Updated(session, row)
                    /\ clock' = now
                    /\ sres' = [route |-> "PUT /:sessionUid", status |-> 200,
                                 error |-> ""]
  /\ UNCHANGED <<reqVars, chatRows, chats, chats_fts, seqSession, seqChat,
                 minted>>

\* ---- DELETE /session/:sessionUid ------------------------------------------
\* `column = ?` for an INTEGER column and the text of a route parameter:
\* the text is compared as the number it spells, and matches no integer
\* when it spells none
IntegerEquals(id, param) == ToString(id) = param

\* DELETE FROM chats WHERE sessionId = ?; DELETE FROM sessions WHERE id = ?
\* both run with the route parameter
DeleteSession(sessionUid) ==
  /\ chats' = { c \in chats : ~IntegerEquals(c.sessionId, sessionUid) }
  /\ sessions' = { s \in sessions : ~IntegerEquals(s.id, sessionUid) }
  /\ sres' = [route |-> "DELETE /:sessionUid", status |-> 200, error |-> ""]
  /\ UNCHANGED <<reqVars, chatRows, chats_fts, seqSession, seqChat, minted,
                 clock>>

\* ---- POST /session/:sessionUid/chat/delete --------------------------------
\* chatIds is the array of the body, taken as the set of its elements; the
\* destructuring of a row that was not found throws and is answered 500
DeleteChats(sessionUid, chatIds) ==
  /\ IF chatIds = {}
       THEN /\ sres' = [route |-> "POST /:sessionUid/chat/delete", status |-> 400,
                       error |-> "Invalid chatIds provided"]
            /\ chats' = chats
       ELSE IF \A s \in sessions : s.uid # sessionUid
         THEN /\ sres' = [route |-> "POST /:sessionUid/chat/delete",
                         status |-> 500, error |-> "Failed to delete chats"]
              /\ chats' = chats
         ELSE LET sessionId == SessionByUid(sessionUid).id
              IN  /\ chats' = { c \in chats :
                                 ~(c.sessionId = sessionId /\ c.uid \in chatIds) }
                  /\ sres' = [route |-> "POST /:sessionUid/chat/delete",
                               status |-> 200, error |-> ""]
  /\ UNCHANGED <<reqVars, chatRows, sessions, chats_fts, seqSession, seqChat,
                 minted, clock>>

Next ==
  \/ \E r \in Reqs : SendNext(r)
  \/ \E r \in Reqs : FetchFailed(r)
  \/ \E r \in Reqs : FetchedStream(r)
  \/ \E r \in Reqs : FetchedJson(r)
  \/ \E r \in Reqs : JsonReplied(r)
  \/ \E r \in Reqs : JsonFailed(r)
  \/ \E r \in Reqs : ReadChunk(r)
  \/ \E r \in Reqs : ReadDone(r)
  \/ \E r \in Reqs : ReadFailed(r)
  \/ \E r \in Reqs : ClientAbort(r)
  \/ \E r \in Reqs : Close(r)
  \/ CreateSession

Spec == Init /\ [][Next]_vars

\* the first send of the client
SendFirst ==
  \E r \in Reqs :
    /\ r = ReqOrder[1]
    /\ SendNext(r)

\* a later send, made after the user has switched the stream option of the
\* settings off
SendUnstreamed(r) ==
  /\ r # ReqOrder[1]
  /\ SendNext(r)
  /\ ~body'[r].stream

\* the server driven by a client whose follow-up sends are not streamed
FollowUpNext ==
  \/ SendFirst
  \/ \E r \in Reqs : SendUnstreamed(r)
  \/ \E r \in Reqs : FetchFailed(r)
  \/ \E r \in Reqs : FetchedStream(r)
  \/ \E r \in Reqs : FetchedJson(r)
  \/ \E r \in Reqs : JsonReplied(r)
  \/ \E r \in Reqs : JsonFailed(r)
  \/ \E r \in Reqs : ReadChunk(r)
  \/ \E r \in Reqs : ReadDone(r)
  \/ \E r \in Reqs : ReadFailed(r)
  \/ \E r \in Reqs : ClientAbort(r)
  \/ \E r \in Reqs : Close(r)
  \/ CreateSession

FollowUpSpec == Init /\ [][FollowUpNext]_vars

\* a send of the browser client with the stream option of the settings
\* switched off; apiSendQuery puts no chatUid into the body
SendPlain(r) ==
  /\ SendNext(r)
  /\ ~body'[r].stream
  /\ body'[r].chatUid = ""

\* response.json() resolves to a body in Ollama's format and no statement
\* of the recorder fails
JsonRepliedStored(r) ==
  /\ JsonReplied(r)
  /\ res'[r].result.hasMessage
  /\ chats_fts' # chats_fts

\* what a client may put in the place of :sessionUid : the uid of a session
\* or one that no session carries
SessionUids == {GhostUid} \cup { s.uid : s \in sessions }

\* the sidebar of the client deletes a session under its id
SessionIds == { ToString(s.id) : s \in sessions }

\* the server driven by a client that chats without streaming and creates
\* and edits its sessions
SessionNext ==
  \/ \E r \in Reqs : SendPlain(r)
  \/ \E r \in Reqs : FetchFailed(r)
  \/ \E r \in Reqs : FetchedJson(r)
  \/ \E r \in Reqs : JsonRepliedStored(r)
  \/ \E r \in Reqs : JsonFailed(r)
  \/ \E r \in Reqs : Close(r)
  \/ CreateSession
  \/ \E u \in SessionUids, patch \in Patches : UpdateSession(u, patch)

SessionSpec == Init /\ [][SessionNext]_vars

\* the server driven by a client that chats without streaming and deletes
\* sessions and chats
DeleteNext ==
  \/ \E r \in Reqs : SendPlain(r)
  \/ \E r \in Reqs : FetchFailed(r)
  \/ \E r \in Reqs : FetchedJson(r)
  \/ \E r \in Reqs : JsonRepliedStored(r)
  \/ \E r \in Reqs : JsonFailed(r)
  \/ \E r \in Reqs : Close(r)
  \/ CreateSession
  \/ \E u \in SessionUids \cup SessionIds : DeleteSession(u)
  \/ \E u \in SessionUids, ids \in SUBSET { c.uid : c \in chats } :
       DeleteChats(u, ids)

DeleteSpec == Init /\ [][DeleteNext]_vars

\* every request arrives, on one existing session, before any is answered:
\* each handler runs up to its `await fetch(...)`
SendTogether ==
  /\ \A r \in Reqs : pc[r] = "idle"
  /\ \E s \in sessions : \E bs \in [Reqs -> Bodies({s.uid})] : body' = bs
  /\ pc' = [r \in Reqs |-> "fetch"]
  /\ UNCHANGED <<upstream, received, fullContent, res, aborted, calls, sres,
                 client, dbVars, clock>>

\* reader.read() yields done and no statement of the recorder fails
ReadDoneStored(r) ==
  /\ ReadDone(r)
  /\ chats_fts' # chats_fts

\* the server answering requests that are in flight together; the clients
\* do not abort and the database does not fail
ConcNext ==
  \/ SendTogether
  \/ \E r \in Reqs : FetchFailed(r)
  \/ \E r \in Reqs : FetchedStream(r)
  \/ \E r \in Reqs : FetchedJson(r)
  \/ \E r \in Reqs : JsonRepliedStored(r)
  \/ \E r \in Reqs : JsonFailed(r)
  \/ \E r \in Reqs : ReadChunk(r)
  \/ \E r \in Reqs : ReadDoneStored(r)
  \/ \E r \in Reqs : ReadFailed(r)
  \/ CreateSession

ConcSpec == Init /\ [][ConcNext]_vars

\* the only chat of a client that is busy with its sessions
SendOnce ==
  \E r \in Reqs :
    /\ r = ReqOrder[1]
    /\ SendPlain(r)

\* the bodies the settings of the client may PUT: a name, possibly empty,
\* the archive flag, both or none
FieldPatches ==
  { [f \in {} |-> ""],
    [name |-> "n2"], [name |-> ""], [isArchive |-> 1],
    [name |-> "n2", isArchive |-> 1], [name |-> "", isArchive |-> 1] }

\* the server driven by a client that edits the settings of its sessions
PatchNext ==
  \/ SendOnce
  \/ \E r \in Reqs : FetchedJson(r)
  \/ \E r \in Reqs : JsonRepliedStored(r)
  \/ CreateSession
  \/ \E u \in SessionUids, patch \in FieldPatches : UpdateSession(u, patch)

PatchSpec == Init /\ [][PatchNext]_vars

\* ---- browser client: the Gpt component -------------------------------------
\* what the query box may hold when the user sends it
Queries == {"", "Hello"}

\* finalContent of apiSendQuery when the body has been read to its end: the
\* content of every line that parses (the body is read at the line
\* boundaries the server wrote); an error body has no message.content
finalContent(r) ==
  IF res[r].json = "error" THEN <<>> ELSE ChunkContent(res[r].written)

\* the send effect, run after a render that changed one of its dependencies
\* (sending, query, selectedModel, temperature, stream, activeHistoryIndex):
\* with a query and sending set it stores a new AbortController in
\* controllerRef and calls apiSendQuery, which runs up to its `await fetch`;
\* c is the state of the component after the render
SendEffect(c) ==
  IF c.query # "" /\ c.sending
    THEN \E r \in Reqs, u \in {""} \cup { s.uid : s \in sessions } :
           /\ pc[r] = "idle"
           /\ \A i \in 1..Len(ReqOrder), j \in 1..Len(ReqOrder) :
                (ReqOrder[j] = r /\ i < j) => pc[ReqOrder[i]] # "idle"
           /\ body' = [body EXCEPT ![r] =
                         [NoBody EXCEPT !.query = c.query,
                                        !.model = "llama3.2",
                                        !.temperature = "0.7",
                                        !.stream = c.stream,
                                        !.sessionUid = u]]
           /\ pc' = [pc EXCEPT ![r] = "fetch"]
           /\ client' = [c EXCEPT !.controllerRef = r, !.call[r] = "fetch"]
    ELSE /\ client' = c
         /\ UNCHANGED <<pc, body>>

\* QueryBox.handleLocalSend: handleQuery(localQuery); handleSend(event);
\* the field and the button are disabled while sending
HandleLocalSend(text) ==
  /\ ~client.sending
  /\ SendEffect([client EXCEPT !.query = text, !.sending = TRUE])
  /\ UNCHANGED <<upstream, received, fullContent, res, aborted, calls, sres,
                 dbVars, clock>>

\* handleStreamChange: the Stream switch of the settings dialog, which is
\* not disabled while sending
HandleStreamChange ==
  /\ SendEffect([client EXCEPT !.stream = ~@])
  /\ UNCHANGED <<upstream, received, fullContent, res, aborted, calls, sres,
                 dbVars, clock>>

\* handleCancel: controllerRef.current.abort(); setSending(false).  The
\* fetch or read the aborted call awaits rejects, its catch block returns
\* false and the .then of the send effect sets sending to false again
HandleCancel ==
  /\ client.sending
  /\ IF client.controllerRef = "none"
       THEN UNCHANGED <<client, aborted>>
       ELSE LET r == client.controllerRef
            IN  /\ client' = [client EXCEPT !.sending = FALSE,
                                            !.call[r] = IF @ = "fetch"
                                                          THEN "settled" ELSE @]
                /\ aborted' = [aborted EXCEPT ![r] = @ \/ pc[r] \in InFlight]
  /\ UNCHANGED <<pc, body, upstream, received, fullContent, res, calls, sres,
                 dbVars, clock>>

\* the apiSendQuery call of request r runs to its end: the response is read
\* (response.json(), or readStream up to done, which appends the chat to
\* sessionChats), or the connection broke and the catch block returns false;
\* then the .then of the send effect sets sending to false
ClientSettle(r) ==
  /\ client.call[r] = "fetch"
  /\ res[r].ended \/ pc[r] = "killed"
  /\ client' =
       [client EXCEPT
          !.sending = FALSE,
          !.call[r] = "settled",
          !.sessionChats =
             IF body[r].stream /\ res[r].ended
               THEN Append(@, [query |-> body[r].query,
                               content |-> finalContent(r)])
               ELSE @]
  /\ UNCHANGED <<pc, body, upstream, received, fullContent, res, aborted,
                 calls, sres, dbVars, clock>>

\* the server driven by the Gpt component
ClientNext ==
  \/ \E text \in Queries : HandleLocalSend(text)
  \/ HandleStreamChange
  \/ HandleCancel
  \/ \E r \in Reqs : ClientSettle(r)
  \/ \E r \in Reqs : FetchFailed(r)
  \/ \E r \in Reqs : FetchedStream(r)
  \/ \E r \in Reqs : FetchedJson(r)
  \/ \E r \in Reqs : JsonRepliedStored(r)
  \/ \E r \in Reqs : JsonFailed(r)
  \/ \E r \in Reqs : ReadChunk(r)
  \/ \E r \in Reqs : ReadDoneStored(r)
  \/ \E r \in Reqs : ReadFailed(r)
  \/ CreateSession

ClientSpec == Init /\ [][ClientNext]_vars

TypeOK ==
  /\ pc \in [Reqs -> {"idle", "fetch", "json", "reading", "done", "returned",
                      "rejected", "killed", "closed"}]
  /\ aborted \in [Reqs -> BOOLEAN]
  /\ \A r \in Reqs : \A i \in 1..Len(calls[r]) :
       calls[r][i] \in {"writeHead", "write", "saveChatMessage", "end",
                        "set", "json"}
  /\ sres.route \in {"none", "POST /", "PUT /:sessionUid",
                      "DELETE /:sessionUid", "POST /:sessionUid/chat/delete"}
  /\ sres.status \in {0, 200, 201, 400, 404, 500}
  /\ sres.error \in {"", "Session not found", "No fields to update provided",
                     "Invalid chatIds provided", "Failed to delete chats"}
  /\ client.query \in Queries
  /\ client.sending \in BOOLEAN
  /\ client.stream \in BOOLEAN
  /\ client.controllerRef \in {"none"} \cup Reqs
  /\ client.call \in [Reqs -> {"none", "fetch", "settled"}]
  /\ Len(client.sessionChats) <= Len(ReqOrder)
  /\ \A c \in chats : c.id \in 1..seqChat
  /\ \A s \in sessions : s.id \in 1..seqSession

\* ---- GET /session/list ---------------------------------------------------
\* SELECT s.*, COUNT(c.id) AS totalChats FROM sessions s LEFT JOIN chats c
\* ON s.id = c.sessionId WHERE s.isArchive = ? GROUP BY s.id
SessionList(isArchive) ==
  { [session |-> s,
     totalChats |-> Cardinality({ c \in chats : c.sessionId = s.id })] :
    s \in { t \in sessions : t.isArchive = isArchive } }

\* ---- properties ----------------------------------------------------------
\* the Turn rows a request's recording inserted
RowsOf(r) == { c \in chats : c.id \in chatRows[r] }

\* the streamResponse task of r has died on a throw
Failed(r) == pc[r] \in {"rejected", "killed"}

\* the chunk on which the streamResponse task of r threw: read, never written
FailedChunk(r) ==
  SubSeq(received[r], Len(res[r].written) + 1, Len(received[r]))

\* the text ends at a line boundary
WholeLines(text) == text = <<>> \/ text[Len(text)] = NL

\* the JSON fragments a body written to the client is made of, line by line
Fragments(text) ==
  LET lines == SelectSeq(Split(text), NonBlank)
  IN  [i \in 1..Len(lines) |-> JsonParse(lines[i])]

\* every call `a` on record was made before every call `b` on record
Before(log, a, b) ==
  \A i \in 1..Len(log), j \in 1..Len(log) :
    (log[i] = a /\ log[j] = b) => i < j

Made(log, call) == \E i \in 1..Len(log) : log[i] = call

\* C1: a streaming request the client aborted before the upstream stream
\* completed leaves no Turn row: the recorder is never called for it.
C1_AbortedStreamLeavesNoTurn ==
  \A r \in Reqs : (body[r].stream /\ aborted[r]) => chatRows[r] = {}

\* C2: when a streaming request has completed without client abort, every
\* line written to the client is a JSON fragment and the reply stored in its
\* Turn is the in-order concatenation of the fragments' content.
C2_ReplyIsStreamedContent ==
  \A r \in Reqs :
    (pc[r] = "done" /\ body[r].stream /\ upstream[r] = "ok" /\ ~aborted[r])
      => /\ \A i \in 1..Len(Fragments(res[r].written)) :
              Fragments(res[r].written)[i].ok
         /\ \A c \in RowsOf(r) :
              c.reply = Concat([i \in 1..Len(Fragments(res[r].written)) |->
                                  Fragments(res[r].written)[i].content])

C2_Witness ==
  \E r \in Reqs :
    /\ pc[r] = "done" /\ body[r].stream /\ ~aborted[r]
    /\ \E c \in RowsOf(r) : c.reply = <<"a", "b">>

\* C3: a Turn row is inserted only by the step in which the upstream response
\* becomes fully known (response.json() resolved, or the reader signalled
\* done), under a fresh row id; the reply of a stored row never changes; and
\* a request whose upstream call failed or has not completed has no Turn row.
C3_NoTurnBeforeComplete ==
  \A r \in Reqs :
    (\/ pc[r] \in {"idle", "fetch", "json", "reading", "returned"}
     \/ Failed(r)
     \/ upstream[r] \in {"unreachable", "non2xx", "badjson", "broken"})
      => chatRows[r] = {}

C3_InsertOnceAtCompletion ==
  /\ \A c \in chats : \A d \in chats' : d.id = c.id => d.reply = c.reply
  /\ \A d \in chats' \ chats :
       /\ \A c \in chats : c.id # d.id
       /\ \E r \in Reqs :
            /\ chatRows'[r] = chatRows[r] \cup {d.id}
            /\ pc[r] \in {"json", "reading"}
            /\ pc'[r] = "done"
            /\ upstream[r] = "ok"

C3_TurnWrittenOnceWhenComplete ==
  [](C3_NoTurnBeforeComplete) /\ [][C3_InsertOnceAtCompletion]_vars

C3_Witness ==
  /\ Cardinality(chats) = 2
  /\ \E c \in chats, d \in chats : c.uid = d.uid /\ c.reply # d.reply

\* C4: after a chat request without sessionUid has been recorded, its Turn
\* references a Session row (the one created for it).
C4_SessionlessTurnHasSession ==
  \A r \in Reqs :
    body[r].sessionUid = ""
      => \A c \in RowsOf(r) : \E s \in sessions : s.id = c.sessionId

\* C5: after two recorded chats sent with the same explicit sessionUid there
\* is exactly one Session with that uid, exactly two Turns reference it, and
\* GET /session/list reports totalChats = 2 for it.
C5_TwoChatsOneSession ==
  \A r \in Reqs, q \in Reqs :
    (/\ r # q
     /\ body[r].sessionUid # ""
     /\ body[r].sessionUid = body[q].sessionUid
     /\ chatRows[r] # {}
     /\ chatRows[q] # {})
      => /\ Cardinality({ s \in sessions : s.uid = body[r].sessionUid }) = 1
         /\ \A s \in { t \in sessions : t.uid = body[r].sessionUid } :
              /\ Cardinality({ c \in chats : c.sessionId = s.id }) = 2
              /\ \E e \in SessionList(s.isArchive) :
                   e.session = s /\ e.totalChats = 2

\* C6: the chatUid in a non-streaming response is the one the caller
\* supplied; when the caller supplied none, it is a newly minted identifier
\* that no previously recorded Turn carries.
C6_ChatUidEchoedOrMinted ==
  \A r \in Reqs :
    (pc[r] = "done" /\ ~body[r].stream /\ res[r].json = "result")
      => IF body[r].chatUid # ""
           THEN res[r].chatUid = body[r].chatUid
           ELSE /\ res[r].chatUid # ""
                /\ \A c \in chats \ RowsOf(r) : c.uid # res[r].chatUid

\* C7: a malformed line does not stop the stream: the streamResponse task
\* never dies on a chunk made of whole lines.
C7_MalformedLineDropped ==
  \A r \in Reqs :
    Failed(r) =>
      ~(/\ FailedChunk(r) # <<>>
        /\ WholeLines(res[r].written)
        /\ WholeLines(FailedChunk(r)))

\* C8: however the upstream bytes are cut into chunks, a stream of
\* well-formed lines is never parsed in pieces: the task does not die on a
\* chunk, and the content accumulated is that of the whole lines received.
C8_CutsDoNotMatter ==
  \A r \in Reqs :
    (\E s \in UpstreamStreams :
        /\ IsPrefix(received[r], s)
        /\ \A i \in 1..Len(Fragments(s)) : Fragments(s)[i].ok)
      => /\ Failed(r) => FailedChunk(r) = <<>>
         /\ pc[r] = "done" =>
              fullContent[r] =
                Concat([i \in 1..Len(Fragments(received[r])) |->
                          Fragments(received[r])[i].content])

\* C9: once the streamResponse task has died after streaming began, the
\* client response has been ended.
C9_FailedStreamIsEnded ==
  \A r \in Reqs : pc[r] = "rejected" => res[r].ended

\* C10: when the upstream is unreachable or answers non-2xx, the response is
\* a 500 with a JSON error payload and carries X-Session-Uid and X-Chat-Uid
\* with the values of the request.
C10_UpstreamErrorKeepsCorrelation ==
  \A r \in Reqs :
    upstream[r] \in {"unreachable", "non2xx"}
      => /\ res[r].status = 500
         /\ res[r].json = "error"
         /\ res[r].ended
         /\ res[r].xSessionUid = body[r].sessionUid
         /\ res[r].xChatUid = body[r].chatUid

C10_Witness ==
  \E r \in Reqs :
    /\ upstream[r] = "non2xx"
    /\ body[r].chatUid = CallerChatUid
    /\ body[r].sessionUid = GhostUid
    /\ res[r].ended

\* C11: a database statement that throws inside the recorder is not surfaced
\* to the caller: a request whose upstream exchange succeeded is answered
\* with the status and body the request and the upstream alone determine,
\* whether or not its Turn was stored.
C11_RecorderFailureNotSurfaced ==
  \A r \in Reqs :
    (pc[r] = "done" /\ upstream[r] = "ok")
      => /\ res[r].status = 200
         /\ res[r].ended
         /\ IF body[r].stream
              THEN /\ res[r].json = "none"
                   /\ res[r].written = received[r]
                   /\ res[r].xSessionUid = body[r].sessionUid
                   /\ res[r].xChatUid = body[r].chatUid
              ELSE /\ res[r].json = "result"
                   /\ res[r].result \in UpstreamResults
                   /\ res[r].sessionUid = body[r].sessionUid
                   /\ res[r].chatUid = body[r].chatUid

C11_Witness ==
  \E r \in Reqs :
    /\ pc[r] = "done" /\ upstream[r] = "ok" /\ ~body[r].stream
    /\ body[r].sessionUid = GhostUid
    /\ chatRows[r] = {}
    /\ res[r].status = 200

\* C12: in every state each Turn row has exactly one search-index entry,
\* stored under the Turn's id with the Turn's prompt and reply, and every
\* index entry belongs to a Turn row.
C12_IndexInLockstep ==
  /\ \A c \in chats :
       /\ Cardinality({ f \in chats_fts : f.id = c.id }) = 1
       /\ \A f \in chats_fts :
            f.id = c.id => f.query = c.query /\ f.reply = c.reply
  /\ \A f \in chats_fts : \E c \in chats : c.id = f.id

\* C13: a step of POST /session/:uid/chat/delete that removes Turn rows
\* leaves no search-index entry of a Turn it removed.
C13_ChatDeleteRemovesIndexEntry ==
  [][\A u \in SessionUids, ids \in SUBSET { c.uid : c \in chats } :
       DeleteChats(u, ids)
         => \A c \in chats \ chats' : \A f \in chats_fts' : f.id # c.id]_vars

\* C14: a step of DELETE /session/:uid that is given the uid of an existing
\* session and answers 200 removes the Session row and every Turn row of
\* that session.
C14_SessionDeleteByUid ==
  [][\A s \in sessions :
       (DeleteSession(s.uid) /\ sres'.status = 200)
         => /\ \A t \in sessions' : t.uid # s.uid
            /\ \A c \in chats' : c.sessionId # s.id]_vars

\* C15: every Session has updatedAt >= createdAt, and no step (session
\* create, session update, chat recording) changes the id or the uid of a
\* Session that exists.
C15_UpdatedNotBeforeCreated ==
  \A s \in sessions : s.updatedAt >= s.createdAt

C15_IdentityKept ==
  \A s \in sessions : \A t \in sessions' :
    (t.id = s.id) <=> (t.uid = s.uid)

C16_UpdatedAtNeverDecreases ==
  [][seqChat' # seqChat
       => \A s \in sessions : \A t \in sessions' :
            t.id = s.id => t.updatedAt >= s.updatedAt]_vars

C16_Witness ==
  \E s \in sessions :
    /\ Cardinality({ c \in chats : c.sessionId = s.id }) = 2
    /\ \E c \in chats : c.sessionId = s.id /\ c.createdAt < s.updatedAt
    /\ \A c \in chats : c.createdAt <= s.updatedAt

\* C17: a step that records a chat of request r leaves every Session row
\* as it was, except that the rows carrying the sessionUid of r may have a
\* new updatedAt.
C17_RecordingTouchesOnlyUpdatedAt ==
  [][\A r \in Reqs :
       (pc[r] = "json" /\ pc'[r] = "done" /\ seqChat' # seqChat)
         => \A s \in sessions :
              IF s.uid = body[r].sessionUid
                THEN \E t \in sessions' : t = [s EXCEPT !.updatedAt = t.updatedAt]
                ELSE s \in sessions']_vars

C17_Witness ==
  /\ Cardinality(sessions) = 2
  /\ \E r \in Reqs :
       /\ pc[r] = "done" /\ chatRows[r] # {}
       /\ \E s \in sessions :
            /\ s.uid = body[r].sessionUid
            /\ s.name = "n2"
            /\ s.updatedAt > s.createdAt
            /\ \E c \in RowsOf(r) : c.sessionId = s.id /\ c.createdAt = s.updatedAt

\* C18: the recorder is invoked before the response is completed: when
\* res.json has sent the upstream result, saveChatMessage was called before
\* it; when res.end has ended a stream, saveChatMessage was called after
\* every res.write and before res.end.
C18_RecorderBeforeCompletion ==
  \A r \in Reqs :
    /\ (Made(calls[r], "json") /\ res[r].status = 200)
         => /\ Made(calls[r], "saveChatMessage")
            /\ Before(calls[r], "saveChatMessage", "json")
    /\ Made(calls[r], "end")
         => /\ Made(calls[r], "saveChatMessage")
            /\ Before(calls[r], "write", "saveChatMessage")
            /\ Before(calls[r], "saveChatMessage", "end")

C18_Witness ==
  \E r \in Reqs :
    /\ calls[r] = <<"writeHead", "write", "saveChatMessage", "end">>
    /\ res[r].ended
    /\ chatRows[r] # {}

\* C19: in streaming mode X-Session-Uid and X-Chat-Uid are set, with the
\* values of the request, before any chunk is written to the client.
C19_HeadersBeforeBody ==
  \A r \in Reqs :
    (res[r].written # <<>> \/ Made(calls[r], "write"))
      => /\ Made(calls[r], "writeHead")
         /\ Before(calls[r], "writeHead", "write")
         /\ res[r].xSessionUid = body[r].sessionUid
         /\ res[r].xChatUid = body[r].chatUid

C19_Witness ==
  \E r \in Reqs :
    /\ pc[r] = "reading"
    /\ res[r].written # <<>>
    /\ res[r].xChatUid = CallerChatUid
    /\ ~res[r].ended

\* C20: when two chat requests on the same existing session were in flight
\* together and both have completed, each has its own Turn row, the session
\* has two Turn rows, and its updatedAt is the timestamp of the recording
\* that ran last.
C20_ConcurrentRecordingsBothKept ==
  \A r \in Reqs, q \in Reqs :
    (/\ r # q
     /\ pc[r] = "done" /\ upstream[r] = "ok"
     /\ pc[q] = "done" /\ upstream[q] = "ok")
      => \A s \in sessions :
           s.uid = body[r].sessionUid
             => LET turns == { c \in chats : c.sessionId = s.id }
                IN  /\ RowsOf(r) # {} /\ RowsOf(r) \subseteq turns
                    /\ RowsOf(r) \cap RowsOf(q) = {}
                    /\ Cardinality(turns) = 2
                    /\ \A c \in turns :
                         (\A d \in turns : d.id <= c.id)
                           => s.updatedAt = c.createdAt

C20_Witness ==
  /\ \A r \in Reqs :
       /\ pc[r] = "done" /\ upstream[r] = "ok"
       /\ body[r].stream
       /\ res[r].written # <<>>
  /\ \E s \in sessions :
       /\ \A r \in Reqs : body[r].sessionUid = s.uid
       /\ \E c \in RowsOf(ReqOrder[1]), d \in RowsOf(ReqOrder[2]) :
            /\ d.id < c.id
            /\ d.createdAt < c.createdAt
            /\ s.updatedAt = c.createdAt

\* C21: recording is a plain append: when two requests with the same
\* caller-chosen chatUid and the same sessionUid have both been recorded,
\* there are two Turn rows, one of each request, that carry this uid under
\* distinct row ids.
C21_SameChatUidTwoRows ==
  \A r \in Reqs, q \in Reqs :
    (/\ r # q
     /\ body[r].chatUid # ""
     /\ body[r].chatUid = body[q].chatUid
     /\ body[r].sessionUid = body[q].sessionUid
     /\ chatRows[r] # {}
     /\ chatRows[q] # {})
      => /\ RowsOf(r) # {} /\ RowsOf(q) # {}
         /\ \A c \in RowsOf(r), d \in RowsOf(q) :
              c.id # d.id /\ c.uid = body[r].chatUid /\ d.uid = c.uid
         /\ Cardinality({ c \in chats : c.uid = body[r].chatUid }) = 2

C21_Witness ==
  \E s \in sessions :
    /\ \A r \in Reqs : body[r].sessionUid = s.uid /\ chatRows[r] # {}
    /\ Cardinality({ c \in chats :
                       c.uid = CallerChatUid /\ c.sessionId = s.id }) = 2

\* the columns of sessions other than updatedAt
SessionColumns ==
  {"id", "uid", "name", "model", "temperature", "createdAt", "modelFileId",
   "templateId", "isArchive", "jsonMeta"}

\* C22: a step of PUT /session/:uid leaves every column the body does not
\* supply, other than updatedAt, at its previous value in the addressed
\* Session, and leaves every other Session row unchanged; a PUT that is not
\* answered 200 changes no Session.
C22_OnlySuppliedFieldsUpdated ==
  [][\A u \in SessionUids, patch \in FieldPatches :
       (sres'.route = "PUT /:sessionUid" /\ UpdateSession(u, patch))
         => IF sres'.status = 200
              THEN LET session == SessionByUid(u)
                   IN  /\ \E t \in sessions' :
                            /\ t.id = session.id
                            /\ \A f \in SessionColumns \ DOMAIN patch :
                                 t[f] = session[f]
                       /\ \A s \in sessions : s.id # session.id => s \in sessions'
                       /\ Cardinality(sessions') = Cardinality(sessions)
              ELSE sessions' = sessions]_vars

C22_Witness ==
  /\ sres.route = "PUT /:sessionUid" /\ sres.status = 200
  /\ Cardinality(sessions) = 2
  /\ \E s \in sessions :
       /\ s.isArchive = 1 /\ s.name # "n2" /\ s.updatedAt > s.createdAt
  /\ \E s \in sessions : s.isArchive = 0 /\ s.updatedAt = s.createdAt

\* the sends of the client that failed or were cancelled: answered with an
\* error, cut off, or aborted by handleCancel
FailedSends ==
  { r \in Reqs : /\ client.call[r] = "settled"
                 /\ (res[r].status # 200 \/ aborted[r]) }

\* C23: a send of the client that fails or is cancelled appends no chat to
\* sessionChats (there are at most as many entries as sends that were
\* answered 200 and not cancelled), and the step that ends such a send
\* leaves the sending flag false.
C23_NoEntryForFailedSend ==
  Len(client.sessionChats)
    <= Cardinality({ r \in Reqs : client.call[r] = "settled" } \ FailedSends)

C23_SendingReset ==
  \A r \in Reqs :
    (client.call[r] = "fetch" /\ client'.call[r] = "settled")
      => ~client'.sending

C23_FailedSendLeavesNoEntry ==
  [](C23_NoEntryForFailedSend) /\ [][C23_SendingReset]_vars

\* C24: the client has at most one POST /chat request in flight.
C24_OneRequestInFlight ==
  Cardinality({ r \in Reqs : client.call[r] = "fetch" }) <= 1

\* how many times the handler has completed the response: res.json, res.end
Completions(log) ==
  Cardinality({ i \in 1..Len(log) : log[i] \in {"json", "end"} })

\* C25: a POST /chat handler completes its response exactly once: never
\* twice, and once the handler and its streamResponse task have nothing left
\* to run (the upstream call resolved, the stream ended or failed, or there
\* was no readable body) the response has been completed.
C25_ExactlyOneCompletion ==
  \A r \in Reqs :
    /\ Completions(calls[r]) <= 1
    /\ pc[r] \in {"done", "returned", "rejected"}
         => res[r].ended /\ Completions(calls[r]) = 1

\* the content of the fragments a text is made of, in order
ContentOf(text) ==
  Concat([i \in 1..Len(Fragments(text)) |-> Fragments(text)[i].content])

\* C26: with two streaming requests in flight together, what a request has
\* written to its client is a prefix of the bytes of its own upstream, its
\* fullContent is the content of the fragments it has written, and once it
\* is done its client has all the bytes of its own upstream and its Turn
\* stores the content of its own fragments, in arrival order.
C26_StreamsDoNotMix ==
  \A r \in Reqs :
    body[r].stream
      => /\ IsPrefix(res[r].written, received[r])
         /\ fullContent[r] = ContentOf(res[r].written)
         /\ (pc[r] = "done" /\ upstream[r] = "ok")
              => /\ res[r].written = received[r]
                 /\ \A c \in RowsOf(r) : c.reply = ContentOf(received[r])

C26_Witness ==
  /\ \A r \in Reqs : pc[r] = "done" /\ body[r].stream /\ upstream[r] = "ok"
  /\ \E c \in RowsOf(ReqOrder[1]) : c.reply = <<"a">>
  /\ \E c \in RowsOf(ReqOrder[2]) : c.reply = <<"a", "b">>
  /\ \E c \in RowsOf(ReqOrder[1]), d \in RowsOf(ReqOrder[2]) : d.id < c.id

\* C27: a recording is one step: the step that inserts a Turn inserts
\* exactly one, on behalf of one request, together with exactly one
\* search-index entry keyed by the id of that Turn and carrying its prompt
\* and reply, and leaves the Session of the Turn with the timestamp of the
\* Turn; no other step writes a Turn or an index entry.
C27_RecordingIsOneStep ==
  [][IF seqChat' # seqChat
       THEN \E d \in chats' :
              /\ chats' \ chats = {d}
              /\ \E f \in chats_fts' :
                   /\ chats_fts' \ chats_fts = {f}
                   /\ f.id = d.id /\ f.query = d.query /\ f.reply = d.reply
              /\ \E r \in Reqs :
                   /\ chatRows' = [chatRows EXCEPT ![r] = @ \cup {d.id}]
                   /\ pc[r] \in {"json", "reading"} /\ pc'[r] = "done"
              /\ \A s \in sessions' : s.id = d.sessionId => s.updatedAt = d.createdAt
       ELSE chats' = chats /\ chats_fts' = chats_fts /\ chatRows' = chatRows]_vars

C27_Witness ==
  /\ \A r \in Reqs : pc[r] = "done" /\ chatRows[r] # {}
  /\ Cardinality(chats) = 2 /\ Cardinality(chats_fts) = 2
  /\ \E r \in Reqs : body[r].stream
  /\ \E r \in Reqs : ~body[r].stream
  /\ \A c \in chats : \E f \in chats_fts : f.id = c.id /\ f.reply = c.reply
  /\ \E c \in chats, d \in chats : c.reply # d.reply

\* C28: in every state the sessionId of every Turn row is the id of a
\* Session row that exists: no Turn has a null session and none is
\* orphaned by a deletion.
C28_EveryTurnHasSession ==
  \A c \in chats :
    /\ c.sessionId # NullId
    /\ \E s \in sessions : s.id = c.sessionId

\* the sessionUid the caller is told: X-Session-Uid of a stream, the
\* sessionUid field of a JSON body
EchoedSessionUid(r) ==
  IF body[r].stream THEN res[r].xSessionUid ELSE res[r].sessionUid

\* C29: when a request that supplied a sessionUid has been answered and
\* recorded, the sessionUid echoed to the caller is the uid of the Session
\* row its Turn is stored under, also when the recorder created that row.
C29_EchoedUidIsStoredUid ==
  \A r \in Reqs :
    (pc[r] = "done" /\ upstream[r] = "ok" /\ body[r].sessionUid # "")
      => \A c \in RowsOf(r) :
           \E s \in sessions : s.id = c.sessionId /\ s.uid = EchoedSessionUid(r)

\* C30: a step of POST /session/:uid/chat/delete changes no table but
\* chats; with an empty chatIds it answers 400 and removes nothing; for a
\* session that does not exist it reports "Session not found" and removes
\* nothing; otherwise it removes exactly the Turns of the addressed session
\* whose uid is in chatIds.
C30_ChatDeleteFrame ==
  [][\A u \in SessionUids, ids \in SUBSET { c.uid : c \in chats } :
       (sres'.route = "POST /:sessionUid/chat/delete" /\ DeleteChats(u, ids))
         => /\ sessions' = sessions
            /\ IF ids = {}
                 THEN sres'.status = 400 /\ chats' = chats
                 ELSE IF \A s \in sessions : s.uid # u
                   THEN sres'.error = "Session not found" /\ chats' = chats
                   ELSE chats' =
                          chats \ { c \in chats :
                                      /\ c.sessionId = SessionByUid(u).id
                                      /\ c.uid \in ids }]_vars

====
